---- MODULE Spec2Model ----
(***************************************************************************)
(* The agent execution core of Agent-Next-Web: the think/act round of      *)
(* CodeActAgent (src/app/agent/codeact.py) and SWEAgent                    *)
(* (src/app/agent/swe.py), the command dispatcher _run_command and the     *)
(* run loop that drives the rounds.                                        *)
(***************************************************************************)
EXTENDS Naturals, Sequences, FiniteSets

\* ------------------------------------------------------------------ bounds
\* Tool calls the oracle issues over one run (each gets a fresh id).
MaxCalls == 3
\* Largest maximum round count an agent is constructed with.
MaxSteps == 2
\* Log length up to which a caller of think() and act() makes another call.
MaxLog == 4

\* --------------------------------------------------------------- constants
\* A Python value a capability returns: its type, its number or length, and
\* its str().
PyValue(type, n, text) == [type |-> type, n |-> n, text |-> text]
PyOut == PyValue("str", 3, "out")
PyEmptyStr == PyValue("str", 0, "")
PyStrZero == PyValue("str", 1, "0")
PyNone == PyValue("NoneType", 0, "None")
PyZero == PyValue("int", 0, "0")
PyFive == PyValue("int", 5, "5")
PyFalse == PyValue("bool", 0, "False")
PyTrue == PyValue("bool", 1, "True")
PyEmptyList == PyValue("list", 0, "[]")
\* The capability raised instead of returning.
RAISE == PyValue("raise", 0, "<raise>")
\* The capability was not reached.
NoResult == PyValue("none", 0, "<none>")
Traceback == "<traceback>"
NoOutput == "The command ran successfully and did not produce any output."
ErrorMarker == "Error:\n"
Placeholder == "{current_dir}"
NoId == 0

\* Directories the shell can be in.
Dirs == {"/a", "/b"}
\* What a capability does when invoked: a truthy result, a falsy one, or raise.
ToolResults == {PyOut, PyEmptyStr, RAISE}
\* The same with results of other types.
PyResults ==
    {PyOut, PyEmptyStr, PyStrZero, PyNone, PyZero, PyFive, PyFalse, PyTrue,
     PyEmptyList, RAISE}
\* Names the oracle can put in a tool call: two registered tools, a name that
\* is in no registry, and a missing name.
CommandNames == {"bash", "finish", "submit", ""}
\* The agent classes.
Agents == {"CodeActAgent", "SWEAgent"}
\* Terminal-command sets an agent is constructed with.
SpecialSets == {{"finish"}, {"finish", "submit", ""}}

VARIABLES
    agent,                  \* which class the agent is
    special_tool_commands,  \* the terminal-command set
    max_steps,              \* the maximum round count
    next_step_prompt,       \* the round-instruction template
    state,                  \* AgentState
    current_step,           \* the step counter
    messages,               \* memory.messages, the persisted log
    commands,               \* the pending tool calls (self.commands)
    working_dir,            \* self.working_dir
    cwd,                    \* the shell's directory (environment)
    asked,                  \* what the oracle was last given
    think_result,           \* what the last think() returned
    dispatched,             \* the dispatches of the current act() call
    next_id,                \* next fresh correlation id of the oracle
    reason,                 \* why the run ended
    pc,                     \* position of the run loop
    idx,                    \* position of act()'s for loop
    tpl,                    \* a call of a project-template tool's execute
    fs                      \* the directories and files that call created

\* The agent's variables and the template tools' variables.
avars == <<agent, special_tool_commands, max_steps, next_step_prompt, state,
           current_step, messages, commands, working_dir, cwd, asked,
           think_result, dispatched, next_id, reason, pc, idx>>

tvars == <<tpl, fs>>

vars == <<avars, tvars>>

config == <<agent, special_tool_commands, max_steps>>

\* ----------------------------------------------------------------- prompts
\* The round-instruction template: text with a {current_dir} field.
NEXT_STEP_TEMPLATE == <<"Current directory: ", Placeholder>>

\* str.format(current_dir=d): every {current_dir} field becomes d.
Format(t, d) == [i \in DOMAIN t |-> IF t[i] = Placeholder THEN d ELSE t[i]]

\* ---------------------------------------------------------------- messages
user_message(content) ==
    [role |-> "user", content |-> content, tool_calls |-> <<>>,
     tool_call_id |-> NoId, name |-> ""]

from_tool_calls(content, tool_calls) ==
    [role |-> "assistant", content |-> content, tool_calls |-> tool_calls,
     tool_call_id |-> NoId, name |-> ""]

tool_message(content, tool_call_id, name) ==
    [role |-> "tool", content |-> content, tool_calls |-> <<>>,
     tool_call_id |-> tool_call_id, name |-> name]

\* --------------------------------------------------------------- registry
\* set_tool_execution_map: Bash, StrReplaceEditor, Finish by their names.
tool_execution_map == {"bash", "str_replace_editor", "finish"}

\* A raw tool call of the oracle becomes the dispatcher's command dict.
transform_tool_call_to_command(call) ==
    [command |-> call.name, args |-> call.args]

\* -------------------------------------------------------------- dispatcher
\* Mutant: no command is ever terminal.
is_special_command_never(cmd) == FALSE

is_special_command(cmd) == cmd.command \in special_tool_commands

\* Mutant: the terminal check runs before the name is looked at.
NoCommand_finishes(cmd, st) ==
    [observation |-> <<ErrorMarker, "No command specified.">>,
     state |-> IF cmd.command \in special_tool_commands THEN "FINISHED" ELSE st,
     invoked |-> FALSE, escaped |-> FALSE]

NoCommand(cmd, st) ==
    [observation |-> <<ErrorMarker, "No command specified.">>,
     state |-> st, invoked |-> FALSE, escaped |-> FALSE]

\* Mutant: the terminal check runs before the registry lookup.
NotFound_finishes(cmd, st) ==
    [observation |-> <<ErrorMarker, "Command '", cmd.command, "' not found.">>,
     state |-> IF cmd.command \in special_tool_commands THEN "FINISHED" ELSE st,
     invoked |-> FALSE, escaped |-> FALSE]

NotFound(cmd, st) ==
    [observation |-> <<ErrorMarker, "Command '", cmd.command, "' not found.">>,
     state |-> st, invoked |-> FALSE, escaped |-> FALSE]

\* Mutant: only None counts as no result.
Truthy_not_none(v) == v.type # "NoneType"

\* bool(v), as "if result:" takes it: None is false, a number is true when
\* it is not zero, a string or collection when it is not empty.
Truthy(v) == v.type # "NoneType" /\ v.n # 0

\* str(v)
Str(v) == v.text

\* The try block when the capability returned result (the backquotes the
\* code puts around the name are not characters of a TLA+ string).
OnResult(cmd, result, st) ==
    [observation |->
        <<"Observed result of command ", cmd.command, " executed by user:\n",
          IF Truthy(result) THEN Str(result) ELSE NoOutput>>,
     state |-> IF is_special_command(cmd) THEN "FINISHED" ELSE st,
     invoked |-> TRUE, escaped |-> FALSE]

\* Mutant: the except block re-raises.
OnException_reraises(cmd, st) ==
    [observation |-> <<ErrorMarker, Traceback>>,
     state |-> st, invoked |-> TRUE, escaped |-> TRUE]

\* Mutant: the terminal check runs in the except block too.
OnException_finishes(cmd, st) ==
    [observation |-> <<ErrorMarker, Traceback>>,
     state |-> IF cmd.command \in special_tool_commands THEN "FINISHED" ELSE st,
     invoked |-> TRUE, escaped |-> FALSE]

\* Mutant: a tool failure marks the agent as failed.
OnException_sets_error(cmd, st) ==
    [observation |-> <<ErrorMarker, Traceback>>,
     state |-> "ERROR", invoked |-> TRUE, escaped |-> FALSE]

\* The except block: the traceback becomes the observation.
OnException(cmd, st) ==
    [observation |-> <<ErrorMarker, Traceback>>,
     state |-> st, invoked |-> TRUE, escaped |-> FALSE]

\* _run_command(cmd) when the capability, if reached, does result.
run_command(cmd, result, st) ==
    IF cmd.command = "" THEN NoCommand(cmd, st)
    ELSE IF cmd.command \notin tool_execution_map THEN NotFound(cmd, st)
    ELSE IF result = RAISE THEN OnException(cmd, st)
    ELSE OnResult(cmd, result, st)

\* ------------------------------------------------------------------- think
\* The transient view of the log the oracle is given.
think_messages(log, prompt, dir) ==
    IF prompt # <<>> THEN log \o <<user_message(Format(prompt, dir))>> ELSE log

\* What the oracle call does: an answer with its tool calls, or it raises.
Answer(tool_calls) ==
    [raised |-> FALSE, content |-> "content", tool_calls |-> tool_calls]

OracleRaises == [raised |-> TRUE, content |-> "", tool_calls |-> <<>>]

\* Mutant: an answer without tool calls leaves the pending commands.
think_commands_or_pending(response) ==
    IF response.tool_calls = <<>> THEN commands ELSE response.tool_calls

\* self.commands = response.tool_calls or []
think_commands(response) == response.tool_calls

\* Mutant: a failed oracle call is logged as an empty answer.
think_memory_logs_failure(log, response) ==
    Append(log, from_tool_calls(response.content, response.tool_calls))

\* Mutant: an answer without tool calls is not logged.
think_memory_skips_empty(log, response) ==
    IF response.raised \/ response.tool_calls = <<>> THEN log
    ELSE Append(log, from_tool_calls(response.content, response.tool_calls))

\* The log after the oracle call: its answer is added as an assistant
\* message; when the call raised, the lines after it did not run.
think_memory(log, response) ==
    IF response.raised THEN log
    ELSE Append(log, from_tool_calls(response.content, response.tool_calls))

\* Mutant: think() always asks for act().
think_return_true(cmds) == TRUE

\* return bool(self.commands)
think_return(cmds) == Len(cmds) > 0

\* SWEAgent.think formats the template in place; CodeActAgent.think does not.
think_prompt(prompt, dir) ==
    IF agent = "SWEAgent" THEN Format(prompt, dir) ELSE prompt

\* --------------------------------------------------------------------- act
\* Mutant: the log is written once, when the batch is over.
act_memory_after_batch(log, output, command) ==
    IF command.id + 1 = next_id
    THEN Append(log, tool_message(output, command.id, command.name))
    ELSE log

\* Mutant: error observations are not logged.
act_memory_drops_errors(log, output, command) ==
    IF Head(output) = ErrorMarker THEN log
    ELSE Append(log, tool_message(output, command.id, command.name))

\* memory.add_message(tool_msg) for the output of one command.
act_memory(log, output, command) ==
    Append(log, tool_message(output, command.id, command.name))

\* Mutant: act() consumes the pending commands.
act_commands_consumed(cmds, i) == IF i = Len(cmds) THEN <<>> ELSE cmds

\* self.commands after iteration i of the loop: act() never assigns it.
act_commands(cmds, i) == cmds

\* Mutant: the loop breaks once the agent is FINISHED.
act_next_breaks(i, n, st) == IF i = n \/ st = "FINISHED" THEN "end" ELSE "loop"

\* The for loop after iteration i of n: the next command, or the return.
act_next(i, n, st) == IF i = n THEN "end" ELSE "loop"

\* ---------------------------------------------------------------- run loop
\* Mutant: the counter counts commands, not rounds.
step_after_round_per_command(step, n) == step + n

\* The step counter after a completed round of n commands.
step_after_round(step, n) == step + 1

\* Why the run ends after a completed round ("" when another round begins).
round_outcome(returned, st, step, max) ==
    IF ~returned THEN "no_commands"
    ELSE IF st = "FINISHED" THEN "finished"
    ELSE IF step >= max THEN "budget"
    ELSE ""

\* Batches the oracle can answer with: n calls with fresh ids.
Batches ==
    UNION {
        { [i \in 1..n |-> [id |-> next_id + i - 1, name |-> names[i], args |-> "args"]]
            : names \in [1..n -> CommandNames] }
        : n \in 0..(MaxCalls + 1 - next_id) }

\* No template tool is running.
TplIdle ==
    [tool |-> "", args |-> <<>>, pc |-> "idle", i |-> 0, proc |-> "",
     result |-> <<>>]

Init ==
    /\ tpl = TplIdle
    /\ fs = {}
    /\ agent \in Agents
    /\ special_tool_commands \in SpecialSets
    /\ max_steps \in 1..MaxSteps
    /\ next_step_prompt = NEXT_STEP_TEMPLATE
    /\ state = "IDLE"
    /\ current_step = 0
    /\ messages = <<>>
    /\ commands = <<>>
    /\ working_dir \in {IF agent = "SWEAgent" THEN "." ELSE ""}
    /\ cwd \in Dirs
    /\ asked = <<>>
    /\ think_result = FALSE
    /\ dispatched = <<>>
    /\ next_id = 1
    /\ reason = ""
    /\ pc = "idle"
    /\ idx = 0

\* run(): IDLE -> RUNNING, the first round begins.
Run ==
    /\ pc = "idle"
    /\ state = "IDLE"
    /\ state' = "RUNNING"
    /\ pc' = "think"
    /\ UNCHANGED <<tvars, config, next_step_prompt, current_step, messages, commands,
                   working_dir, cwd, asked, think_result, dispatched, next_id,
                   reason, idx>>

\* An exception leaves think() or act(): the run ends in ERROR.
Escape(why) ==
    /\ state' = "ERROR"
    /\ reason' = why
    /\ pc' = "done"

\* think(): bash.execute("pwd") raises.
ThinkPwdRaises ==
    /\ pc = "think"
    /\ Escape("pwd_error")
    /\ UNCHANGED <<tvars, config, next_step_prompt, current_step, messages, commands,
                   working_dir, cwd, asked, think_result, dispatched, next_id, idx>>

\* think(): the oracle call raises.
ThinkOracleRaises ==
    /\ pc = "think"
    /\ working_dir' = cwd
    /\ next_step_prompt' = think_prompt(next_step_prompt, working_dir')
    /\ asked' = think_messages(messages, next_step_prompt', working_dir')
    /\ messages' = think_memory(messages, OracleRaises)
    /\ Escape("oracle_error")
    /\ UNCHANGED <<tvars, config, current_step, commands, cwd,
                   think_result, dispatched, next_id, idx>>

\* think(): the oracle answers with a batch of tool calls.
Think ==
    /\ pc = "think"
    /\ working_dir' = cwd
    /\ next_step_prompt' = think_prompt(next_step_prompt, working_dir')
    /\ asked' = think_messages(messages, next_step_prompt', working_dir')
    /\ \E batch \in Batches :
        /\ commands' = think_commands(Answer(batch))
        /\ messages' = think_memory(messages, Answer(batch))
        /\ next_id' = next_id + Len(batch)
    /\ think_result' = think_return(commands')
    /\ dispatched' = <<>>
    /\ pc' = "act"
    /\ UNCHANGED <<tvars, config, state, current_step, cwd, reason, idx>>

\* act() with nothing pending: returns at once.
ActNoCommands ==
    /\ pc = "act"
    /\ commands = <<>>
    /\ pc' = "end"
    /\ UNCHANGED <<tvars, config, next_step_prompt, state, current_step, messages,
                   commands, working_dir, cwd, asked, think_result, dispatched,
                   next_id, reason, idx>>

\* act(): the for loop is entered.
ActBegin ==
    /\ pc = "act"
    /\ commands # <<>>
    /\ dispatched' = <<>>
    /\ idx' = 1
    /\ pc' = "loop"
    /\ UNCHANGED <<tvars, config, next_step_prompt, state, current_step, messages,
                   commands, working_dir, cwd, asked, think_result,
                   next_id, reason>>

\* act(): one iteration of the for loop, the dispatch of commands[idx], when
\* the capability does one of results and leaves the shell in one of dirs.
ActCommandWith(results, dirs) ==
    /\ pc = "loop"
    /\ idx <= Len(commands)
    /\ \E result \in results, dir \in dirs :
        LET command == commands[idx]
            cmd == transform_tool_call_to_command(command)
            out == run_command(cmd, result, state)
        IN  \* a capability that is not reached does nothing
            /\ out.invoked \/ (result = PyOut /\ dir = cwd)
            \* only the shell tool moves the shell
            /\ (out.invoked /\ cmd.command = "bash") \/ dir = cwd
            /\ cwd' = dir
            /\ dispatched' = Append(dispatched,
                    [id |-> command.id, name |-> cmd.command,
                     result |-> IF out.invoked THEN result ELSE NoResult,
                     invoked |-> out.invoked, before |-> state, after |-> out.state,
                     logged |-> Len(messages),
                     observation |-> out.observation, escaped |-> out.escaped])
            /\ IF out.escaped
               THEN /\ Escape("tool_error")
                    /\ UNCHANGED <<messages, idx>>
               ELSE /\ state' = out.state
                    /\ messages' = act_memory(messages, out.observation, command)
                    /\ idx' = idx + 1
                    /\ pc' = act_next(idx, Len(commands), out.state)
                    /\ UNCHANGED reason
    /\ commands' = act_commands(commands, idx)
    /\ UNCHANGED <<tvars, config, next_step_prompt, current_step, working_dir,
                   asked, think_result, next_id>>

ActCommand == ActCommandWith(ToolResults, Dirs)

\* The round is complete: count it and decide whether another one begins.
EndRound ==
    /\ pc = "end"
    /\ current_step' = step_after_round(current_step, Len(commands))
    /\ reason' = round_outcome(think_result, state, current_step', max_steps)
    /\ pc' = IF reason' = "" THEN "think" ELSE "done"
    /\ UNCHANGED <<tvars, config, next_step_prompt, state, messages, commands,
                   working_dir, cwd, asked, think_result, dispatched, next_id, idx>>

Next ==
    \/ Run
    \/ ThinkPwdRaises
    \/ ThinkOracleRaises
    \/ Think
    \/ ActNoCommands
    \/ ActBegin
    \/ ActCommand
    \/ EndRound

Spec == Init /\ [][Next]_vars

\* ------------------------------------------------- think() and act() called
\* A caller other than the run loop calls think() and act() in any order.
\* It has control before the first call and whenever a call has returned
\* ("act": think() returned, "end": act() returned) or raised.
CallThink ==
    /\ pc \in {"idle", "act", "end", "raised"}
    /\ Len(messages) < MaxLog
    /\ pc' = "think"
    /\ UNCHANGED <<tvars, config, next_step_prompt, state, current_step, messages,
                   commands, working_dir, cwd, asked, think_result, dispatched,
                   next_id, reason, idx>>

CallAct ==
    /\ pc \in {"idle", "end", "raised"}
    /\ Len(messages) < MaxLog
    /\ pc' = "act"
    /\ UNCHANGED <<tvars, config, next_step_prompt, state, current_step, messages,
                   commands, working_dir, cwd, asked, think_result, dispatched,
                   next_id, reason, idx>>

\* think(): bash.execute("pwd") raises, to the caller.
CallThinkPwdRaises ==
    /\ pc = "think"
    /\ reason' = "pwd_error"
    /\ pc' = "raised"
    /\ UNCHANGED <<tvars, config, next_step_prompt, state, current_step, messages,
                   commands, working_dir, cwd, asked, think_result, dispatched,
                   next_id, idx>>

\* think(): the oracle call raises, to the caller.
CallThinkOracleRaises ==
    /\ pc = "think"
    /\ working_dir' = cwd
    /\ next_step_prompt' = think_prompt(next_step_prompt, working_dir')
    /\ asked' = think_messages(messages, next_step_prompt', working_dir')
    /\ messages' = think_memory(messages, OracleRaises)
    /\ reason' = "oracle_error"
    /\ pc' = "raised"
    /\ UNCHANGED <<tvars, config, state, current_step, commands, cwd,
                   think_result, dispatched, next_id, idx>>

\* act(): one iteration of the for loop; the capability returns a result
\* or raises, and the shell stays where it is.
CallActCommand == ActCommandWith({PyOut, RAISE}, {cwd})

\* A CodeActAgent as its class declares it.
InitCalls ==
    /\ Init
    /\ agent = "CodeActAgent"
    /\ special_tool_commands = {"finish"}
    /\ max_steps = MaxSteps

NextCalls ==
    \/ CallThink
    \/ CallAct
    \/ CallThinkPwdRaises
    \/ CallThinkOracleRaises
    \/ Think
    \/ ActNoCommands
    \/ ActBegin
    \/ CallActCommand

SpecCalls == InitCalls /\ [][NextCalls]_vars

\* ------------------------------------------------- results of every type
\* act(): one iteration of the for loop; the capability returns a value of
\* any type or raises, and the shell stays where it is.
DispatchAny == ActCommandWith(PyResults, {cwd})

\* The first round of a run.
NextDispatch ==
    \/ Run
    \/ Think
    \/ ActNoCommands
    \/ ActBegin
    \/ DispatchAny

SpecDispatch == InitCalls /\ [][NextDispatch]_vars

\* ----------------------------------------------------- project-template tools
\* CreateProjectTemplateTool.execute
\* (src/app/tool/create_project_template.py) and GetRepoTemplateTool.execute
\* (src/app/tool/get_repo_template.py).  A path is the sequence of its
\* components; fs holds what the call itself has created.

TemplateTools == {"create_project_template", "get_repo_template"}

\* project_name is read with kwargs.get, so it is None when absent.
NoName == "<None>"

ProjectNames == {"app", NoName}

Paths == {<<".">>, <<"/w">>}

TemplateTypes == {"minimal", "basic", "full"}

\* The arguments a call can carry.
TemplateArgs ==
    [project_name : ProjectNames, path : Paths, template_type : TemplateTypes]

\* os.path.join
Join(base, name) == Append(base, name)

\* os.path.abspath: a relative path is anchored at the process's directory.
Abspath(p) == IF p[1] = "." THEN <<"/cwd">> \o Tail(p) ELSE p

project_path(tool, args) ==
    IF tool = "create_project_template"
    THEN Abspath(Join(args.path, args.project_name))
    ELSE Join(args.path, args.project_name)

Dir(p) == [kind |-> "dir", at |-> p]

File(p) == [kind |-> "file", at |-> p]

DirectoryStructure(name, children) == [name |-> name, children |-> children]

get_base_structure ==
    << DirectoryStructure("src",
           <<"assets", "components", "hooks", "pages", "services", "store",
             "styles", "types", "utils">>),
       DirectoryStructure("public", <<>>) >>

get_full_structure ==
    get_base_structure \o
    << DirectoryStructure("src/layouts", <<>>),
       DirectoryStructure("src/constants", <<>>),
       DirectoryStructure("src/contexts", <<>>),
       DirectoryStructure("src/features", <<>>),
       DirectoryStructure("src/i18n", <<>>),
       DirectoryStructure("src/middlewares", <<>>),
       DirectoryStructure("tests", <<>>),
       DirectoryStructure("docs", <<>>) >>

\* The order in which _create_directory_structure touches the file system
\* for one item: the directory, then (when it has children) its index.ts,
\* then each child directory followed by that child's index.ts.
item_steps(base, item) ==
    LET dir_path == Join(base, item.name)
        child(k) == Join(dir_path, item.children[(k + 1) \div 2])
    IN  <<[op |-> "makedirs", at |-> dir_path]>> \o
        IF item.children # <<>>
        THEN <<[op |-> "write", at |-> Join(dir_path, "index.ts")]>> \o
             [k \in 1..(2 * Len(item.children)) |->
                 IF k % 2 = 1
                 THEN [op |-> "makedirs", at |-> child(k)]
                 ELSE [op |-> "write", at |-> Join(child(k), "index.ts")]]
        ELSE <<>>

RECURSIVE create_directory_structure(_, _)
create_directory_structure(base, structure) ==
    IF structure = <<>> THEN <<>>
    ELSE item_steps(base, Head(structure)) \o
         create_directory_structure(base, Tail(structure))

\* base_dirs of CreateProjectTemplateTool.execute
base_dirs(template_type) ==
    IF template_type = "basic"
    THEN <<"src", "src/components", "src/styles", "src/utils", "public">>
    ELSE <<"src">>

\* What execute does after the scaffolding subprocess: the calls that touch
\* the file system, in order.  CreateProjectTemplateTool ends by asking
\* ShowRepoStructureTool for the listing it returns.
steps(tool, args) ==
    LET root == project_path(tool, args)
    IN  IF tool = "create_project_template"
        THEN LET dirs == base_dirs(args.template_type)
             IN  [k \in 1..Len(dirs) |->
                     [op |-> "makedirs", at |-> Join(root, dirs[k])]] \o
                 <<[op |-> "show", at |-> root]>>
        ELSE create_directory_structure(
                 root,
                 IF args.template_type = "full"
                 THEN get_full_structure ELSE get_base_structure)

\* What a failing ShowRepoStructureTool.execute raises: an exception of its
\* own, like every capability behind the uniform tool interface.
show_error == "Exception"

\* The exception a failing step raises.
step_error(op) == IF op = "show" THEN show_error ELSE "OSError"

\* Mutant: the except clause catches every exception.
Catches_all(exc) == TRUE

\* The except clause of execute.
Catches(exc) == exc = "CalledProcessError"

\* The leading mark of CreateProjectTemplateTool's error text is left out.
error_text(tool) ==
    IF tool = "create_project_template"
    THEN "Error creating project template: "
    ELSE "Error creating template: "

success_text(tool) ==
    IF tool = "create_project_template"
    THEN "Template Created: "
    ELSE "Successfully created project: "

\* An exception inside the try block: returned as text when the except
\* clause catches it, raised to the caller otherwise.
on_exception(exc) ==
    IF Catches(exc)
    THEN [tpl EXCEPT !.pc = "returned",
                     !.result = <<error_text(tpl.tool), exc>>]
    ELSE [tpl EXCEPT !.pc = "raised", !.result = <<exc>>]

\* subprocess.run(..., shell=True, check=True, cwd=path): the scaffolder
\* exits with status 0, exits with another status (CalledProcessError), or
\* cannot be started in cwd (OSError).
ProcessOutcomes == {"ok", "CalledProcessError", "OSError"}

RunSubprocess ==
    /\ tpl.pc = "start"
    /\ \E outcome \in ProcessOutcomes :
          IF outcome = "ok"
          THEN tpl' = [tpl EXCEPT !.proc = "ok", !.pc = "path"]
          ELSE tpl' = [on_exception(outcome) EXCEPT !.proc = outcome]
    /\ UNCHANGED <<fs, avars>>

\* os.path.join(path, project_name) raises TypeError for a None name; the
\* f-string of the subprocess command accepted it.
JoinPath ==
    /\ tpl.pc = "path"
    /\ IF tpl.args.project_name = NoName
       THEN tpl' = on_exception("TypeError")
       ELSE tpl' = [tpl EXCEPT !.pc = "steps", !.i = 1]
    /\ UNCHANGED <<fs, avars>>

\* One call of os.makedirs(exist_ok=True), one write of an index.ts, or the
\* call of ShowRepoStructureTool.execute; each succeeds or raises.
Step ==
    /\ tpl.pc = "steps"
    /\ LET plan == steps(tpl.tool, tpl.args)
           step == plan[tpl.i]
       IN  \E ok \in BOOLEAN :
              IF ok
              THEN /\ fs' = CASE step.op = "makedirs" -> fs \cup {Dir(step.at)}
                              [] step.op = "write" -> fs \cup {File(step.at)}
                              [] OTHER -> fs
                   /\ tpl' = IF tpl.i = Len(plan)
                             THEN [tpl EXCEPT !.pc = "returned",
                                              !.result =
                                                  <<success_text(tpl.tool)>>]
                             ELSE [tpl EXCEPT !.i = tpl.i + 1]
              ELSE /\ fs' = fs
                   /\ tpl' = on_exception(step_error(step.op))
    /\ UNCHANGED avars

InitTemplate ==
    /\ \E tool \in TemplateTools, args \in TemplateArgs :
          tpl = [TplIdle EXCEPT !.tool = tool, !.args = args, !.pc = "start"]
    /\ fs = {}
    /\ agent = "CodeActAgent"
    /\ special_tool_commands = {"finish"}
    /\ max_steps = MaxSteps
    /\ next_step_prompt = NEXT_STEP_TEMPLATE
    /\ state = "IDLE"
    /\ current_step = 0
    /\ messages = <<>>
    /\ commands = <<>>
    /\ working_dir = ""
    /\ cwd \in Dirs
    /\ asked = <<>>
    /\ think_result = FALSE
    /\ dispatched = <<>>
    /\ next_id = 1
    /\ reason = ""
    /\ pc = "idle"
    /\ idx = 0

NextTemplate == RunSubprocess \/ JoinPath \/ Step

SpecTemplate == InitTemplate /\ [][NextTemplate]_vars

\* ------------------------------------------------------------------ claims
\* Index of the last assistant message of the log, 0 when there is none.
LastAssistant ==
    IF \E i \in DOMAIN messages : messages[i].role = "assistant"
    THEN CHOOSE i \in DOMAIN messages :
            /\ messages[i].role = "assistant"
            /\ \A j \in DOMAIN messages : j > i => messages[j].role # "assistant"
    ELSE 0

\* Number of assistant messages in the log.
Assistants == Cardinality({i \in DOMAIN messages : messages[i].role = "assistant"})

\* Where the tool messages of the current batch begin in the log.
BatchBase == Len(messages) - Len(dispatched)

\* The dispatch d reached a capability that raised.
Raised(d) == d.invoked /\ d.result = RAISE

\* The dispatch d ran a terminal capability that returned.
Terminated(d) ==
    d.invoked /\ d.result # RAISE /\ d.name \in special_tool_commands

\* C1: a capability that raises while _run_command invokes it does not make
\* the dispatcher raise: the dispatch returns an observation that starts with
\* "Error:\n", and act() goes on to the next command of the batch.
C1_ToolExceptionContained ==
    \A i \in DOMAIN dispatched :
        Raised(dispatched[i]) =>
            /\ ~dispatched[i].escaped
            /\ reason # "tool_error"
            /\ Head(dispatched[i].observation) = ErrorMarker
            /\ i < Len(commands) =>
                \/ Len(dispatched) > i
                \/ pc = "loop" /\ idx = i + 1

C1_Witness ==
    \E i \in DOMAIN dispatched :
        /\ Raised(dispatched[i])
        /\ Len(dispatched) > i
        /\ dispatched[i + 1].invoked

\* C2: when act() returns from a batch of N >= 1 commands it has appended
\* exactly N tool messages, the i-th carrying the id of the i-th command,
\* whatever each command's outcome was.
C2_OneToolMessagePerCommand ==
    (pc = "end" /\ commands # <<>>) =>
        LET n == Len(commands)
        IN  /\ Len(messages) > n
            /\ LastAssistant = Len(messages) - n
            /\ \A i \in 1..n :
                /\ messages[Len(messages) - n + i].role = "tool"
                /\ messages[Len(messages) - n + i].tool_call_id = commands[i].id

C2_Witness ==
    /\ pc = "end"
    /\ Len(commands) = 3
    /\ \E i, j, k \in DOMAIN dispatched :
        /\ Raised(dispatched[i])
        /\ dispatched[j].name = "submit"
        /\ dispatched[k].name = ""

\* C3: when a batch holds a terminal command at any position, all its
\* commands are dispatched, in order, and each one's observation is logged.
C3_TerminalDoesNotSkip ==
    (pc = "end" /\ \E i \in DOMAIN commands :
                        commands[i].name \in special_tool_commands) =>
        /\ Len(dispatched) = Len(commands)
        /\ BatchBase >= 1
        /\ \A i \in DOMAIN commands :
            /\ dispatched[i].id = commands[i].id
            /\ messages[BatchBase + i].content = dispatched[i].observation

C3_Witness ==
    /\ pc = "end"
    /\ Len(dispatched) >= 2
    /\ Terminated(dispatched[1])
    /\ dispatched[1].after = "FINISHED"
    /\ dispatched[2].invoked

\* C4 as claimed: while a command of the batch is still to be dispatched,
\* Agent State is not FINISHED.
C4_FinishedOnlyAfterBatch == pc = "loop" => state # "FINISHED"

\* C4: once a terminal capability has returned, Agent State is FINISHED at
\* once: every later command of the batch is dispatched with the state
\* already FINISHED, and it is FINISHED when the batch has been processed.
C4_FinishedAtOnce ==
    \A i \in DOMAIN dispatched :
        Terminated(dispatched[i]) =>
            /\ state = "FINISHED"
            /\ \A j \in DOMAIN dispatched :
                j > i => /\ dispatched[j].before = "FINISHED"
                         /\ dispatched[j].after = "FINISHED"

C4_Witness ==
    /\ pc = "loop"
    /\ idx <= Len(commands)
    /\ Len(dispatched) >= 1
    /\ Terminated(dispatched[1])
    /\ state = "FINISHED"

\* C5 as claimed: every dispatch of a command whose name is in the
\* terminal-command set leaves Agent State FINISHED, whatever its outcome.
C5_TerminalAlwaysFinishes ==
    \A i \in DOMAIN dispatched :
        dispatched[i].name \in special_tool_commands =>
            dispatched[i].after = "FINISHED"

\* C5: a dispatch of a command whose name is in the terminal-command set
\* leaves Agent State FINISHED when the name is registered and the capability
\* returns; when the capability raises, or the name is not registered or
\* missing, it leaves Agent State as it was.
C5_FinishedOnlyOnReturn ==
    \A i \in DOMAIN dispatched :
        dispatched[i].name \in special_tool_commands =>
            dispatched[i].after =
                IF Terminated(dispatched[i]) THEN "FINISHED"
                ELSE dispatched[i].before

C5_Witness ==
    \E i, j \in DOMAIN dispatched :
        /\ dispatched[i].name = "finish"
        /\ Raised(dispatched[i])
        /\ dispatched[i].after = "RUNNING"
        /\ j > i
        /\ Terminated(dispatched[j])
        /\ dispatched[j].before = "RUNNING"

\* C6: when the oracle answers with no command, think() returns false, no
\* tool message follows the assistant message, and the run ends after that
\* round (no other round begins).
C6_ZeroCommandsEndRun ==
    (messages # <<>> /\ commands = <<>>) =>
        /\ ~think_result
        /\ messages[Len(messages)].role = "assistant"
        /\ messages[Len(messages)].tool_calls = <<>>
        /\ dispatched = <<>>
        /\ pc \in {"act", "end", "done"}
        /\ pc = "done" => reason = "no_commands"

C6_Witness ==
    /\ messages # <<>>
    /\ commands = <<>>
    /\ pc = "done"
    /\ current_step = 2

\* C7: a dispatch of a name that is not in the registry does not raise,
\* returns "Error:\nCommand '<name>' not found.", invokes no capability and
\* leaves Agent State as it was.
C7_UnknownCommand ==
    \A i \in DOMAIN dispatched :
        (dispatched[i].name # "" /\ dispatched[i].name \notin tool_execution_map) =>
            /\ ~dispatched[i].escaped
            /\ dispatched[i].observation =
                <<ErrorMarker, "Command '", dispatched[i].name, "' not found.">>
            /\ ~dispatched[i].invoked
            /\ dispatched[i].after = dispatched[i].before

C7_Witness ==
    \E i \in DOMAIN dispatched :
        /\ dispatched[i].name = "submit"
        /\ "submit" \in special_tool_commands
        /\ dispatched[i].before = "RUNNING"
        /\ Len(dispatched) = i
        /\ state = "RUNNING"

\* C8: when the oracle call fails in think(), the failure leaves think(): the
\* log is what it was when the oracle was asked (no assistant or tool message
\* for that round), Agent State is ERROR and the run is over.
C8_OracleFailureEscapes ==
    reason = "oracle_error" =>
        /\ state = "ERROR"
        /\ pc = "done"
        /\ asked # <<>>
        /\ messages = SubSeq(asked, 1, Len(asked) - 1)
        /\ Assistants = current_step

C8_Witness ==
    /\ reason = "oracle_error"
    /\ current_step = 1
    /\ Len(messages) >= 2

\* C9: the step counter is the number of completed rounds, whatever the
\* number of commands in them; no round begins once it has reached the
\* maximum, and a run that ends on the budget does not end FINISHED.
C9_BudgetBoundsRun ==
    /\ current_step + (IF pc \in {"act", "loop", "end"} THEN 1 ELSE 0) = Assistants
    /\ current_step <= max_steps
    /\ pc \in {"think", "act", "loop", "end"} => current_step < max_steps
    /\ reason = "budget" =>
        /\ pc = "done"
        /\ current_step = max_steps
        /\ state = "RUNNING"

C9_Witness ==
    /\ reason = "budget"
    /\ current_step = 2
    /\ Len(messages) = 5

\* The text t holds d.
Contains(t, d) == \E i \in DOMAIN t : t[i] = d

\* C10: in every round the instruction the oracle is given holds the working
\* directory as think() read it in that round.
C10_InstructionHasCurrentDir ==
    asked # <<>> =>
        Contains(asked[Len(asked)].content, working_dir)

\* C11: a think() that returns has appended exactly one message to the log,
\* the assistant message with the oracle's content and tool calls (also when
\* there are none); the instruction shown to the oracle is not in the log,
\* and the earlier entries are as they were.
C11_ThinkAppendsOneAssistant ==
    /\ \A i \in DOMAIN messages : messages[i].role # "user"
    /\ pc = "act" =>
        /\ asked # <<>>
        /\ asked[Len(asked)].role = "user"
        /\ messages = Append(SubSeq(asked, 1, Len(asked) - 1),
                             from_tool_calls("content", commands))

C11_Witness ==
    /\ pc = "act"
    /\ commands = <<>>
    /\ Len(messages) >= 3

\* C12: the commands of a batch are dispatched one at a time in the order of
\* the batch, and when command i+1 is dispatched the tool message of command
\* i is the last entry of the log.
C12_SequentialDispatch ==
    \A i \in DOMAIN dispatched :
        /\ i <= Len(commands)
        /\ dispatched[i].id = commands[i].id
        /\ i > 1 =>
            /\ dispatched[i].logged = dispatched[i - 1].logged + 1
            /\ dispatched[i].logged <= Len(messages)
            /\ messages[dispatched[i].logged] =
                tool_message(dispatched[i - 1].observation,
                             dispatched[i - 1].id, dispatched[i - 1].name)

C12_Witness ==
    /\ pc = "end"
    /\ Len(dispatched) = 3
    /\ Raised(dispatched[2])

\* C13: no failure of a tool invocation leaves think() or act(): every one,
\* the refresh of the working directory included, becomes an observation.
C13_ToolFailuresContained == reason \notin {"pwd_error", "tool_error"}

\* C14: the round-instruction template is the one given at construction,
\* after any number of think() and act() calls.
C14_TemplateUnchanged == next_step_prompt = NEXT_STEP_TEMPLATE

\* C16: a dispatch of a command without a name returns
\* "Error:\nNo command specified.", reaches no capability and leaves Agent
\* State as it was, also when the empty name is in the terminal-command set.
C16_NoCommandName ==
    \A i \in DOMAIN dispatched :
        dispatched[i].name = "" =>
            /\ dispatched[i].observation = <<ErrorMarker, "No command specified.">>
            /\ ~dispatched[i].invoked
            /\ ~dispatched[i].escaped
            /\ dispatched[i].after = dispatched[i].before

C16_Witness ==
    \E i \in DOMAIN dispatched :
        /\ dispatched[i].name = ""
        /\ "" \in special_tool_commands
        /\ dispatched[i].before = "RUNNING"
        /\ Len(dispatched) = i
        /\ state = "RUNNING"

\* C18: a dispatch leaves Agent State as it was or sets it to FINISHED, and
\* never changes a FINISHED state; so once a command of the batch has set
\* FINISHED, Agent State is FINISHED when act() returns.
C18_DispatcherOnlyFinishes ==
    /\ \A i \in DOMAIN dispatched :
        /\ dispatched[i].after \in {dispatched[i].before, "FINISHED"}
        /\ dispatched[i].before = "FINISHED" => dispatched[i].after = "FINISHED"
    /\ (pc = "end" /\ \E i \in DOMAIN dispatched : dispatched[i].after = "FINISHED")
        => state = "FINISHED"

C18_Witness ==
    /\ pc = "end"
    /\ Len(dispatched) = 3
    /\ Terminated(dispatched[1])
    /\ Raised(dispatched[2])
    /\ dispatched[3].name = "submit"
    /\ state = "FINISHED"

\* C15: after any calls of think() and act(), every tool message carries the
\* id of a tool call of the nearest assistant message before it, and only
\* tool messages lie between the two.
C15_ToolMessagesFollowTheirCall ==
    \A i \in DOMAIN messages :
        messages[i].role = "tool" =>
            \E a \in 1..(i - 1) :
                /\ messages[a].role = "assistant"
                /\ \A j \in (a + 1)..i : messages[j].role = "tool"
                /\ \E k \in DOMAIN messages[a].tool_calls :
                    messages[a].tool_calls[k].id = messages[i].tool_call_id

\* act() has run a second time, and after a think() whose oracle call failed.
C15_Witness ==
    /\ pc = "end"
    /\ reason = "oracle_error"
    /\ asked # <<>>
    /\ Len(messages) >= Len(asked)
    /\ messages[Len(asked)].role = "tool"
    /\ messages[Len(asked) - 1].role = "tool"

\* C19: act() leaves the pending commands as think() set them (the tool
\* calls of the last assistant message), so every act() that returns has
\* dispatched them in order and the log ends with their tool messages, also
\* a second act() in a row and an act() after a think() that failed.
C19_ActKeepsCommands ==
    /\ LastAssistant # 0 => commands = messages[LastAssistant].tool_calls
    /\ (pc = "end" /\ commands # <<>>) =>
        /\ Len(dispatched) = Len(commands)
        /\ Len(messages) > Len(commands)
        /\ \A i \in DOMAIN commands :
            /\ dispatched[i].id = commands[i].id
            /\ messages[Len(messages) - Len(commands) + i].role = "tool"
            /\ messages[Len(messages) - Len(commands) + i].tool_call_id =
                commands[i].id

\* Two act() calls in a row, then a failed think(), then act() again.
C19_Witness ==
    /\ pc = "end"
    /\ reason = "oracle_error"
    /\ LastAssistant = 1
    /\ Len(commands) = 1
    /\ Len(messages) = 4
    /\ Len(asked) = 4

\* C17: when a registered capability returns, the observation is the success
\* header with the command's name, followed by str() of the result when the
\* result is truthy and by the no-output sentence when it is the empty
\* string, None, 0, False or an empty collection.
C17_SuccessObservation ==
    \A i \in DOMAIN dispatched :
        (dispatched[i].invoked /\ dispatched[i].result # RAISE) =>
            dispatched[i].observation =
                <<"Observed result of command ", dispatched[i].name,
                  " executed by user:\n",
                  IF dispatched[i].result \in
                        {PyEmptyStr, PyNone, PyZero, PyFalse, PyEmptyList}
                  THEN NoOutput
                  ELSE dispatched[i].result.text>>

C17_Witness ==
    \E i, j \in DOMAIN dispatched :
        /\ dispatched[i].result = PyZero
        /\ dispatched[i].observation[4] = NoOutput
        /\ dispatched[j].result = PyStrZero
        /\ dispatched[j].observation[4] = "0"

\* C20: in both project-template tools nothing is created before the
\* scaffolding subprocess has exited with status 0; when it exits with
\* another status the call has created nothing and returns the error text
\* instead of raising; every other failure (the subprocess cannot start, the
\* project path cannot be joined, a directory or file cannot be created, the
\* listing fails) is raised to the caller, and a call that returned without
\* a failed subprocess returned the success text.
C20_TemplateAfterScaffold ==
    /\ fs # {} => tpl.proc = "ok"
    /\ tpl.pc \in {"steps", "path"} => tpl.proc = "ok"
    /\ tpl.proc = "CalledProcessError" =>
          /\ fs = {}
          /\ tpl.pc = "returned"
          /\ tpl.result = <<error_text(tpl.tool), "CalledProcessError">>
    /\ tpl.pc = "returned" /\ tpl.proc = "ok" =>
          /\ tpl.result = <<success_text(tpl.tool)>>
          /\ \A k \in DOMAIN steps(tpl.tool, tpl.args) :
                LET step == steps(tpl.tool, tpl.args)[k]
                IN  /\ step.op = "makedirs" => Dir(step.at) \in fs
                    /\ step.op = "write" => File(step.at) \in fs
    /\ tpl.proc = "OSError" => fs = {} /\ tpl.pc = "raised"
    /\ tpl.pc = "raised" => tpl.result \in {<<"OSError">>, <<"TypeError">>, <<"Exception">>}

\* A directory or file creation of GetRepoTemplateTool failed after the
\* subprocess had succeeded: the failure was raised and the entries created
\* before it are in place.
C20_Witness ==
    /\ tpl.tool = "get_repo_template"
    /\ tpl.proc = "ok"
    /\ tpl.pc = "raised"
    /\ tpl.result = <<"OSError">>
    /\ fs # {}

====
